---------------------------- MODULE Spec2Model ----------------------------
(***************************************************************************)
(* A model of generate.py: the two CSV loaders (load_smech_to_bcc,         *)
(* load_bcc_sectors), the row validators, and main()'s pipeline            *)
(* load -> cross-reference -> render -> (prettier) -> write.               *)
(*                                                                         *)
(* A Python str is a sequence of one-character strings.  A Python dict is  *)
(* a sequence of <<key, value>> pairs in insertion order (the order        *)
(* .items() iterates in).                                                  *)
(*                                                                         *)
(* Specifications:                                                         *)
(*   Spec            one run of main(), from the command line to the files *)
(*   SpecSmech       load_smech_to_bcc, row by row, on a wider set of rows *)
(*   SpecBcc         load_bcc_sectors, row by row, on a wider set of rows  *)
(*   SpecOrder       load_smech_to_bcc on a file and on a reordering of it *)
(*   SpecValidators  expect_just_digits and expect_non_digits on strings   *)
(***************************************************************************)
EXTENDS Integers, Sequences, FiniteSets, TLC

(* ------------------------------ bounds -------------------------------- *)

\* Most data rows a CSV file holds (after the header row).
MaxRows == 3

\* Longest string handed to a validator in SpecValidators.
MaxLen == 3

\* Most data rows of the file whose orderings SpecOrder compares.
MaxOrderRows == 3

(* ----------------------------- strings -------------------------------- *)

\* The characters the model's inputs are written with.
Chars == {"\n", " ", "1", "2", "B", "X", "Y", "a", "e", "n", "s", "x", "y"}

\* Code point of each character (Python compares str by code point).
Ord(c) ==
    CASE c = "\n" -> 10  [] c = " " -> 32   [] c = "1" -> 49  [] c = "2" -> 50
      [] c = "B" -> 66   [] c = "X" -> 88   [] c = "Y" -> 89  [] c = "a" -> 97
      [] c = "b" -> 98   [] c = "e" -> 101  [] c = "n" -> 110 [] c = "s" -> 115
      [] c = "x" -> 120  [] c = "y" -> 121

IsSpace(c) == c \in {" ", "\n"}

\* [0-9]
IsDigit(c) == c \in {"0", "1", "2", "3", "4", "5", "6", "7", "8", "9"}

\* str.strip(): drop leading and trailing whitespace.
RECURSIVE LStrip(_)
LStrip(s) == IF s # <<>> /\ IsSpace(Head(s)) THEN LStrip(Tail(s)) ELSE s

RECURSIVE RStrip(_)
RStrip(s) ==
    IF s # <<>> /\ IsSpace(s[Len(s)]) THEN RStrip(SubSeq(s, 1, Len(s) - 1)) ELSE s

Strip(s) == RStrip(LStrip(s))

\* str.lower()
LowerChar(c) ==
    CASE c = "B" -> "b" [] c = "X" -> "x" [] c = "Y" -> "y" [] OTHER -> c

Lower(s) == [i \in 1..Len(s) |-> LowerChar(s[i])]

\* a < b for Python str: lexicographic by code point.
StrLess(a, b) ==
    \E i \in 1..(Len(b)) :
        /\ \A j \in 1..(i - 1) : j <= Len(a) /\ a[j] = b[j]
        /\ \/ i = Len(a) + 1
           \/ i <= Len(a) /\ Ord(a[i]) < Ord(b[i])

(* ---------------------------- validators ------------------------------ *)

\* An exception: its class, the fixed text of its message, and the code, value
\* and row number the message names.
NoError ==
    [type |-> "none", what |-> "", field |-> "", key |-> <<>>, value |-> <<>>, rownum |-> 0]

Raise(type, what, field, key, value, rownum) ==
    [type |-> type, what |-> what, field |-> field, key |-> key, value |-> value,
     rownum |-> rownum]

IsError(e) == e.type # "none"

\* RX_DIGITS.match(value) for RX_DIGITS = re.compile("^[0-9]+$"): one or more
\* digits from the start, up to the end of the string, where "$" also matches
\* just before a newline that is the last character.
RX_DIGITS_match(value) ==
    \E n \in 1..Len(value) :
        /\ \A i \in 1..n : IsDigit(value[i])
        /\ \/ n = Len(value)
           \/ n = Len(value) - 1 /\ value[Len(value)] = "\n"

expect_just_digits(value, fieldname, rownum) ==
    IF ~RX_DIGITS_match(value)
    THEN Raise("ValueError", "is expected to be just digits", fieldname, <<>>, value, rownum)
    ELSE NoError

expect_non_digits(value, fieldname, rownum) ==
    IF RX_DIGITS_match(value)
    THEN Raise("ValueError", "is expected to have text not just digits", fieldname, <<>>, value,
               rownum)
    ELSE NoError

(* ------------------------------- dicts -------------------------------- *)

DictKeys(d) == {d[i][1] : i \in 1..Len(d)}

DictGet(d, k) == d[CHOOSE i \in 1..Len(d) : d[i][1] = k][2]

\* d[k] = v: a new key is appended, an existing key keeps its position.
DictSet(d, k, v) ==
    IF k \in DictKeys(d)
    THEN [i \in 1..Len(d) |-> IF d[i][1] = k THEN <<k, v>> ELSE d[i]]
    ELSE Append(d, <<k, v>>)


(* ------------------------------ CSV rows ------------------------------ *)

\* A data row as csv.DictReader yields it: ncols is the number of cells the
\* line holds; a named column at a position >= ncols reads as None, cells past
\* the named columns go to "extra".  Only the columns the loaders read are
\* kept.  A cell is written as <<c1, ..., cn>>.
S1 == <<"1">>
Sa == <<"a">>

\* smech_sectors.csv: smech_code is column 2 of 6, bcc_code column 6 of 6.
SmechCodeCells == {S1, <<" ", "2">>, Sa, <<>>}

BccCodeCells == {S1, <<"2", "\n">>, <<>>, <<" ">>, Sa}

\* The rows SpecSmech feeds load_smech_to_bcc.
SmechRows ==
    [ncols : {6, 7}, smech_code : SmechCodeCells, bcc_code : BccCodeCells]
    \cup [ncols : {5}, smech_code : {S1, Sa}, bcc_code : {<<>>}]
    \cup [ncols : {1}, smech_code : {<<>>}, bcc_code : {<<>>}]

\* The rows Spec (the whole of main) feeds it.
MainSmechRows ==
    [ncols : {6}, smech_code : {S1, <<" ", "2">>}, bcc_code : {S1, <<"2", "\n">>, <<>>, Sa}]
    \cup [ncols : {5}, smech_code : {S1}, bcc_code : {<<>>}]

\* bcc_sectors.csv: nace_code is column 1 of 8, use_for_bcc column 7, bcc_name
\* column 8.
NaceCodeCells == {S1, <<" ", "2">>, Sa}

UseForBccCells ==
    {<<"x">>, <<" ", "Y", " ">>, <<"Y", "e", "s">>, <<"y", "e", "s", "\n">>,
     <<"n">>, <<>>, <<"y", "e">>}

BccNameCells == {Sa, <<"B", " ">>, <<"a", "a">>, S1, <<>>}

\* The rows SpecBcc feeds load_bcc_sectors.
BccRows ==
    [ncols : {8}, nace_code : NaceCodeCells, use_for_bcc : UseForBccCells,
     bcc_name : BccNameCells]
    \cup [ncols : {9}, nace_code : {S1}, use_for_bcc : {<<"x">>, <<"n">>}, bcc_name : {Sa}]
    \cup [ncols : {7}, nace_code : {S1, Sa}, use_for_bcc : {<<"x">>, <<"n">>},
          bcc_name : {<<>>}]

\* The rows Spec feeds it.
MainBccRows ==
    [ncols : {8}, nace_code : {S1, <<" ", "2">>}, use_for_bcc : {<<"x">>, <<"n">>},
     bcc_name : {Sa, <<"B", " ">>, S1}]
    \cup [ncols : {7}, nace_code : {S1}, use_for_bcc : {<<"x">>}, bcc_name : {<<>>}]

NoRow == [ncols |-> 0]

(* ------------------------- load_smech_to_bcc -------------------------- *)

\* One iteration of the loop over the reader: the dict after the row, the
\* exception raised (NoError when none), and what was printed.
\* (variant: a later row silently replaces the recorded bcc_code)
SmechRow_lastwins(out, row, row_idx) ==
    IF row.ncols < 6
    THEN [out |-> out, error |-> Raise("AttributeError", "NoneType has no strip", "", <<>>, <<>>, row_idx),
          printed |-> "nothing"]
    ELSE LET smech_code == Strip(row.smech_code)
             bcc_code == Strip(row.bcc_code)
             e1 == expect_just_digits(smech_code, "smech_code", row_idx)
             e2 == expect_just_digits(bcc_code, "bcc_code", row_idx)
         IN  IF bcc_code = <<>>
             THEN [out |-> out, error |-> NoError, printed |-> "WARNING"]
             ELSE IF IsError(e1)
             THEN [out |-> out, error |-> e1, printed |-> "nothing"]
             ELSE IF IsError(e2)
             THEN [out |-> out, error |-> e2, printed |-> "nothing"]
             ELSE [out |-> DictSet(out, smech_code, bcc_code), error |-> NoError,
                   printed |-> "mapping"]

\* (variant: a later row with another bcc_code is silently ignored)
SmechRow_firstwins(out, row, row_idx) ==
    IF row.ncols < 6
    THEN [out |-> out, error |-> Raise("AttributeError", "NoneType has no strip", "", <<>>, <<>>, row_idx),
          printed |-> "nothing"]
    ELSE LET smech_code == Strip(row.smech_code)
             bcc_code == Strip(row.bcc_code)
             e1 == expect_just_digits(smech_code, "smech_code", row_idx)
             e2 == expect_just_digits(bcc_code, "bcc_code", row_idx)
         IN  IF bcc_code = <<>>
             THEN [out |-> out, error |-> NoError, printed |-> "WARNING"]
             ELSE IF IsError(e1)
             THEN [out |-> out, error |-> e1, printed |-> "nothing"]
             ELSE IF IsError(e2)
             THEN [out |-> out, error |-> e2, printed |-> "nothing"]
             ELSE [out |-> IF smech_code \in DictKeys(out) THEN out
                             ELSE DictSet(out, smech_code, bcc_code),
                   error |-> NoError,
                   printed |-> "mapping"]

\* (variant: smech_code is validated before the blank bcc_code is looked at)
SmechRow_validatefirst(out, row, row_idx) ==
    IF row.ncols < 6
    THEN [out |-> out, error |-> Raise("AttributeError", "NoneType has no strip", "", <<>>, <<>>, row_idx),
          printed |-> "nothing"]
    ELSE LET smech_code == Strip(row.smech_code)
             bcc_code == Strip(row.bcc_code)
             e1 == expect_just_digits(smech_code, "smech_code", row_idx)
             e2 == expect_just_digits(bcc_code, "bcc_code", row_idx)
         IN  IF IsError(e1)
             THEN [out |-> out, error |-> e1, printed |-> "nothing"]
             ELSE IF bcc_code = <<>>
             THEN [out |-> out, error |-> NoError, printed |-> "WARNING"]
             ELSE IF IsError(e2)
             THEN [out |-> out, error |-> e2, printed |-> "nothing"]
             ELSE IF smech_code \in DictKeys(out) /\ DictGet(out, smech_code) # bcc_code
             THEN [out |-> out,
                   error |-> Raise("ValueError", "has multiple mappings", "smech_code", smech_code, bcc_code, row_idx),
                   printed |-> "mapping"]
             ELSE [out |-> DictSet(out, smech_code, bcc_code), error |-> NoError,
                   printed |-> "mapping"]

SmechRow(out, row, row_idx) ==
    IF row.ncols < 6
    THEN \* row["smech_code"] or row["bcc_code"] is None: None.strip()
         [out |-> out, error |-> Raise("AttributeError", "NoneType has no strip", "", <<>>, <<>>, row_idx),
          printed |-> "nothing"]
    ELSE LET smech_code == Strip(row.smech_code)
             bcc_code == Strip(row.bcc_code)
             e1 == expect_just_digits(smech_code, "smech_code", row_idx)
             e2 == expect_just_digits(bcc_code, "bcc_code", row_idx)
         IN  IF bcc_code = <<>>
             THEN [out |-> out, error |-> NoError, printed |-> "WARNING"]
             ELSE IF IsError(e1)
             THEN [out |-> out, error |-> e1, printed |-> "nothing"]
             ELSE IF IsError(e2)
             THEN [out |-> out, error |-> e2, printed |-> "nothing"]
             ELSE IF smech_code \in DictKeys(out) /\ DictGet(out, smech_code) # bcc_code
             THEN [out |-> out,
                   error |-> Raise("ValueError", "has multiple mappings", "smech_code", smech_code, bcc_code, row_idx),
                   printed |-> "mapping"]
             ELSE [out |-> DictSet(out, smech_code, bcc_code), error |-> NoError,
                   printed |-> "mapping"]

(* -------------------------- load_bcc_sectors -------------------------- *)

\* use_for_bcc = row["use_for_bcc"].strip().lower() in ("x", "y", "yes")
UseForBcc(cell) == Lower(Strip(cell)) \in {<<"x">>, <<"y">>, <<"y", "e", "s">>}

\* One iteration of the loop over the reader: the dict after the row and the
\* exception raised (NoError when none).
\* (variant: a repeated nace_code with the recorded name is let through)
BccRow_merge(out, row, row_idx) ==
    IF row.ncols < 8
    THEN [out |-> out, error |-> Raise("AttributeError", "NoneType has no strip", "", <<>>, <<>>, row_idx)]
    ELSE LET nace_code == Strip(row.nace_code)
             bcc_name == Strip(row.bcc_name)
             e1 == expect_just_digits(nace_code, "nace_code", row_idx)
             e2 == expect_non_digits(bcc_name, "bcc_name", row_idx)
         IN  IF ~UseForBcc(row.use_for_bcc)
             THEN [out |-> out, error |-> NoError]
             ELSE IF IsError(e1)
             THEN [out |-> out, error |-> e1]
             ELSE IF IsError(e2)
             THEN [out |-> out, error |-> e2]
             ELSE IF nace_code \in DictKeys(out) /\ DictGet(out, nace_code) # bcc_name
             THEN [out |-> out,
                   error |-> Raise("ValueError", "is expected to be unique", "nace_code", nace_code, bcc_name, row_idx)]
             ELSE [out |-> DictSet(out, nace_code, bcc_name), error |-> NoError]

\* (variant: nace_code is validated before use_for_bcc is looked at)
BccRow_validatefirst(out, row, row_idx) ==
    IF row.ncols < 8
    THEN [out |-> out, error |-> Raise("AttributeError", "NoneType has no strip", "", <<>>, <<>>, row_idx)]
    ELSE LET nace_code == Strip(row.nace_code)
             bcc_name == Strip(row.bcc_name)
             e1 == expect_just_digits(nace_code, "nace_code", row_idx)
             e2 == expect_non_digits(bcc_name, "bcc_name", row_idx)
         IN  IF IsError(e1)
             THEN [out |-> out, error |-> e1]
             ELSE IF ~UseForBcc(row.use_for_bcc)
             THEN [out |-> out, error |-> NoError]
             ELSE IF IsError(e2)
             THEN [out |-> out, error |-> e2]
             ELSE IF nace_code \in DictKeys(out)
             THEN [out |-> out,
                   error |-> Raise("ValueError", "is expected to be unique", "nace_code", nace_code, bcc_name, row_idx)]
             ELSE [out |-> DictSet(out, nace_code, bcc_name), error |-> NoError]

BccRow(out, row, row_idx) ==
    IF row.ncols < 8
    THEN \* row["bcc_name"] (or row["use_for_bcc"]) is None: None.strip()
         [out |-> out, error |-> Raise("AttributeError", "NoneType has no strip", "", <<>>, <<>>, row_idx)]
    ELSE LET nace_code == Strip(row.nace_code)
             bcc_name == Strip(row.bcc_name)
             e1 == expect_just_digits(nace_code, "nace_code", row_idx)
             e2 == expect_non_digits(bcc_name, "bcc_name", row_idx)
         IN  IF ~UseForBcc(row.use_for_bcc)
             THEN [out |-> out, error |-> NoError]
             ELSE IF IsError(e1)
             THEN [out |-> out, error |-> e1]
             ELSE IF IsError(e2)
             THEN [out |-> out, error |-> e2]
             ELSE IF nace_code \in DictKeys(out)
             THEN [out |-> out,
                   error |-> Raise("ValueError", "is expected to be unique", "nace_code", nace_code, bcc_name, row_idx)]
             ELSE [out |-> DictSet(out, nace_code, bcc_name), error |-> NoError]

(* ---------------------------- rendering -------------------------------- *)

\* sorted(items, key=lambda x: x["name"]): a stable sort, an entry going after
\* every entry whose name is not greater than its own.
RECURSIVE InsertByName(_, _)
InsertByName(sorted, x) ==
    IF sorted = <<>> THEN <<x>>
    ELSE IF StrLess(x.name, Head(sorted).name) THEN <<x>> \o sorted
    ELSE <<Head(sorted)>> \o InsertByName(Tail(sorted), x)

RECURSIVE SortedByName(_)
SortedByName(items) ==
    IF items = <<>> THEN <<>>
    ELSE InsertByName(SortedByName(SubSeq(items, 1, Len(items) - 1)), items[Len(items)])

\* json.dumps(d, sort_keys=True): the items of the dict ordered by key.
RECURSIVE InsertByKey(_, _)
InsertByKey(sorted, kv) ==
    IF sorted = <<>> THEN <<kv>>
    ELSE IF StrLess(kv[1], Head(sorted)[1]) THEN <<kv>> \o sorted
    ELSE <<Head(sorted)>> \o InsertByKey(Tail(sorted), kv)

RECURSIVE SortKeys(_)
SortKeys(d) ==
    IF d = <<>> THEN <<>>
    ELSE InsertByKey(SortKeys(SubSeq(d, 1, Len(d) - 1)), d[Len(d)])

\* ({"name": v, "nace": k} for k, v in bcc_sectors.items())
SectorItems(d) == [i \in 1..Len(d) |-> [name |-> d[i][2], nace |-> d[i][1]]]

\* (variant: the entries stay in the dict's order)
SectorList_unsorted(d) == SectorItems(d)

SectorList(d) == SortedByName(SectorItems(d))

NotListed == [name |-> <<"N", "o", "t", " ", "l", "i", "s", "t", "e", "d">>, nace |-> <<>>]

BccSectorArray(sl) == sl \o <<NotListed>>

\* A rendered module: which template it fills, the values substituted into it,
\* and whether the text has since been replaced by Prettier's output for it.
NoCode == [template |-> "none", timestamp |-> 0, sector_array |-> <<>>,
           smech_mapping |-> <<>>, prettier |-> FALSE]

BenchmarkCode(sl, mapping, ts) ==
    [template |-> "naces.ts", timestamp |-> ts, sector_array |-> sl,
     smech_mapping |-> SortKeys(mapping), prettier |-> FALSE]

BccSectorsCode(sl, ts) ==
    [template |-> "sectors.data.ts", timestamp |-> ts, sector_array |-> BccSectorArray(sl),
     smech_mapping |-> <<>>, prettier |-> FALSE]

\* The clock readings datetime.now() can give.
Timestamps == {1, 2}

(* --------------------------- cross-reference -------------------------- *)

\* The first (k, v) of smech_to_bcc.items() with v not in bcc_sectors; 0 if none.
\* (variant: the verification is left out)
FirstDangling_never(mapping, sectors) == 0

FirstDangling(mapping, sectors) ==
    IF \E i \in 1..Len(mapping) : mapping[i][2] \notin DictKeys(sectors)
    THEN CHOOSE i \in 1..Len(mapping) :
            /\ mapping[i][2] \notin DictKeys(sectors)
            /\ \A j \in 1..(i - 1) : mapping[j][2] \in DictKeys(sectors)
    ELSE 0

(* ------------------------------ prettier ------------------------------ *)

\* prettier_format_code: subprocess.run(...), check_returncode(), return stdout.
\* spawned is FALSE when the command cannot be started.
\* (variant: check_returncode() is left out)
PrettierFormat_unchecked(code, spawned, returncode) ==
    IF ~spawned
    THEN [code |-> code, error |-> Raise("OSError", "cannot run prettier", "", <<>>, <<>>, 0)]
    ELSE [code |-> [code EXCEPT !.prettier = TRUE], error |-> NoError]

PrettierFormat(code, spawned, returncode) ==
    IF ~spawned
    THEN [code |-> code, error |-> Raise("OSError", "cannot run prettier", "", <<>>, <<>>, 0)]
    ELSE IF returncode # 0
    THEN [code |-> code,
          error |-> Raise("CalledProcessError", "non-zero exit status", "", <<>>, <<>>, 0)]
    ELSE [code |-> [code EXCEPT !.prettier = TRUE], error |-> NoError]

(* ------------------------------- state -------------------------------- *)

VARIABLES
    pc,                   \* where main() is
    args,                 \* the parsed command line
    row_idx,              \* number of the row the running loader reads next
    row,                  \* the row the running loader read last
    printed,              \* what the last loop iteration printed
    smech_to_bcc,         \* load_smech_to_bcc's dict
    bcc_sectors,          \* load_bcc_sectors's dict
    included,             \* (history) rows load_bcc_sectors has found flagged for use
    sector_list,
    benchmark_code,
    bcc_sectors_code,
    prettier_rc,          \* (history) how each Prettier run ended
    files,                \* the two output files
    error,                \* the exception that ended the run
    failed_at,            \* pc when it was raised
    v_value, v_result,    \* SpecValidators: a validator's input and outcome
    o_rows, o_perm, o_first, o_second   \* SpecOrder: a file and a reordering of it

mainvars == <<pc, args, row_idx, row, printed, smech_to_bcc, bcc_sectors, included,
              sector_list, benchmark_code, bcc_sectors_code, prettier_rc, files,
              error, failed_at>>

validatorvars == <<v_value, v_result>>

ordervars == <<o_rows, o_perm, o_first, o_second>>

vars == <<mainvars, validatorvars, ordervars>>

NoArgs == [prettier |-> FALSE, output_bcc |-> FALSE, output_benchmark |-> FALSE]

\* --prettier given; --output_bcc and --output_benchmark given (and non-empty).
ArgSets == [prettier : BOOLEAN, output_bcc : BOOLEAN, output_benchmark : BOOLEAN]

\* Nothing loaded, rendered or written yet.
Blank ==
    /\ args = NoArgs
    /\ row_idx = 0
    /\ row = NoRow
    /\ printed = "nothing"
    /\ smech_to_bcc = <<>>
    /\ bcc_sectors = <<>>
    /\ included = 0
    /\ sector_list = <<>>
    /\ benchmark_code = NoCode
    /\ bcc_sectors_code = NoCode
    /\ prettier_rc = [f \in {"naces.ts", "sectors.data.ts"} |-> "not run"]
    /\ files = [f \in {"naces.ts", "sectors.data.ts"} |-> "untouched"]
    /\ error = NoError
    /\ failed_at = "nowhere"

NotCalled == [fn |-> "none", error |-> NoError]

IdleValidators == v_value = <<>> /\ v_result = NotCalled

NotLoaded == [ran |-> FALSE, out |-> <<>>, error |-> NoError]

IdleOrder == o_rows = <<>> /\ o_perm = <<>> /\ o_first = NotLoaded /\ o_second = NotLoaded

Init == pc = "parse_args" /\ Blank /\ IdleValidators /\ IdleOrder

\* An uncaught exception ends the run.
Fail(e) ==
    /\ pc' = "failed"
    /\ error' = e
    /\ failed_at' = pc

(* ------------------------------- main() ------------------------------- *)

\* The order of main()'s statements once the tables are verified: render,
\* format both modules when --prettier is set, make dist, write both files.
\* (variant: each module is written as soon as it is formatted)
NextStep_writeeach(p, a) ==
    CASE p = "render" -> IF a.prettier THEN "prettier_benchmark" ELSE "makedirs"
      [] p = "prettier_benchmark" -> "makedirs"
      [] p = "makedirs" -> "write_benchmark"
      [] p = "write_benchmark" -> IF a.prettier THEN "prettier_bcc" ELSE "write_bcc"
      [] p = "prettier_bcc" -> "write_bcc"
      [] p = "write_bcc" -> "done"

NextStep(p, a) ==
    CASE p = "render" -> IF a.prettier THEN "prettier_benchmark" ELSE "makedirs"
      [] p = "prettier_benchmark" -> "prettier_bcc"
      [] p = "prettier_bcc" -> "makedirs"
      [] p = "makedirs" -> "write_benchmark"
      [] p = "write_benchmark" -> "write_bcc"
      [] p = "write_bcc" -> "done"

ParseArgs ==
    /\ pc = "parse_args"
    /\ \/ \E a \in ArgSets :
            /\ args' = a
            /\ pc' = "open_smech"
            /\ UNCHANGED <<error, failed_at>>
       \/ /\ Fail(Raise("SystemExit", "usage", "", <<>>, <<>>, 0))
          /\ UNCHANGED args
    /\ UNCHANGED <<validatorvars, ordervars>>
    /\ UNCHANGED <<row_idx, row, printed, smech_to_bcc, bcc_sectors, included, sector_list,
                   benchmark_code, bcc_sectors_code, prettier_rc, files>>

\* open("data/smech_sectors.csv"), the DictReader, next(reader)
OpenSmech ==
    /\ pc = "open_smech"
    /\ \/ /\ pc' = "load_smech"
          /\ row_idx' = 2
          /\ smech_to_bcc' = <<>>
          /\ UNCHANGED <<error, failed_at>>
       \/ /\ \E e \in {Raise("OSError", "cannot open", "", <<>>, <<>>, 0),
                       Raise("StopIteration", "no header row", "", <<>>, <<>>, 0)} : Fail(e)
          /\ UNCHANGED <<row_idx, smech_to_bcc>>
    /\ UNCHANGED <<validatorvars, ordervars>>
    /\ UNCHANGED <<args, row, printed, bcc_sectors, included, sector_list, benchmark_code,
                   bcc_sectors_code, prettier_rc, files>>

\* one iteration of load_smech_to_bcc's loop
SmechNextRow(Rows) ==
    /\ pc = "load_smech"
    /\ row_idx < 2 + MaxRows
    /\ \E r \in Rows :
          LET res == SmechRow(smech_to_bcc, r, row_idx) IN
          /\ row' = r
          /\ printed' = res.printed
          /\ smech_to_bcc' = res.out
          /\ IF IsError(res.error)
             THEN Fail(res.error) /\ UNCHANGED row_idx
             ELSE /\ row_idx' = row_idx + 1
                  /\ UNCHANGED <<pc, error, failed_at>>
    /\ UNCHANGED <<validatorvars, ordervars>>
    /\ UNCHANGED <<args, bcc_sectors, included, sector_list, benchmark_code,
                   bcc_sectors_code, prettier_rc, files>>

\* the reader fails on the file (csv.Error, UnicodeDecodeError, OSError)
SmechReadError ==
    /\ pc = "load_smech"
    /\ Fail(Raise("OSError", "cannot read", "", <<>>, <<>>, row_idx))
    /\ UNCHANGED <<validatorvars, ordervars>>
    /\ UNCHANGED <<args, row_idx, row, printed, smech_to_bcc, bcc_sectors, included,
                   sector_list, benchmark_code, bcc_sectors_code, prettier_rc, files>>

\* the reader is exhausted: return out
SmechReturn ==
    /\ pc = "load_smech"
    /\ pc' = "open_bcc"
    /\ row' = NoRow
    /\ row_idx' = 0
    /\ printed' = "nothing"
    /\ UNCHANGED <<validatorvars, ordervars>>
    /\ UNCHANGED <<args, smech_to_bcc, bcc_sectors, included, sector_list, benchmark_code,
                   bcc_sectors_code, prettier_rc, files, error, failed_at>>

\* open("data/bcc_sectors.csv"), the DictReader, next(reader)
OpenBcc ==
    /\ pc = "open_bcc"
    /\ \/ /\ pc' = "load_bcc"
          /\ row_idx' = 2
          /\ bcc_sectors' = <<>>
          /\ UNCHANGED <<error, failed_at>>
       \/ /\ \E e \in {Raise("OSError", "cannot open", "", <<>>, <<>>, 0),
                       Raise("StopIteration", "no header row", "", <<>>, <<>>, 0)} : Fail(e)
          /\ UNCHANGED <<row_idx, bcc_sectors>>
    /\ UNCHANGED <<validatorvars, ordervars>>
    /\ UNCHANGED <<args, row, printed, smech_to_bcc, included, sector_list, benchmark_code,
                   bcc_sectors_code, prettier_rc, files>>

\* one iteration of load_bcc_sectors's loop
BccNextRow(Rows) ==
    /\ pc = "load_bcc"
    /\ row_idx < 2 + MaxRows
    /\ \E r \in Rows :
          LET res == BccRow(bcc_sectors, r, row_idx) IN
          /\ row' = r
          /\ bcc_sectors' = res.out
          /\ included' = IF r.ncols >= 8 /\ UseForBcc(r.use_for_bcc)
                         THEN included + 1 ELSE included
          /\ IF IsError(res.error)
             THEN Fail(res.error) /\ UNCHANGED row_idx
             ELSE /\ row_idx' = row_idx + 1
                  /\ UNCHANGED <<pc, error, failed_at>>
    /\ UNCHANGED <<validatorvars, ordervars>>
    /\ UNCHANGED <<args, printed, smech_to_bcc, sector_list, benchmark_code,
                   bcc_sectors_code, prettier_rc, files>>

BccReadError ==
    /\ pc = "load_bcc"
    /\ Fail(Raise("OSError", "cannot read", "", <<>>, <<>>, row_idx))
    /\ UNCHANGED <<validatorvars, ordervars>>
    /\ UNCHANGED <<args, row_idx, row, printed, smech_to_bcc, bcc_sectors, included,
                   sector_list, benchmark_code, bcc_sectors_code, prettier_rc, files>>

BccReturn ==
    /\ pc = "load_bcc"
    /\ pc' = "verify"
    /\ row' = NoRow
    /\ row_idx' = 0
    /\ UNCHANGED <<validatorvars, ordervars>>
    /\ UNCHANGED <<args, printed, smech_to_bcc, bcc_sectors, included, sector_list,
                   benchmark_code, bcc_sectors_code, prettier_rc, files, error, failed_at>>

\* "Verify that every SMECH code maps to a BCC code"
Verify ==
    /\ pc = "verify"
    /\ LET i == FirstDangling(smech_to_bcc, bcc_sectors) IN
       IF i # 0
       THEN Fail(Raise("ValueError", "is not in the BCC sector list", "", smech_to_bcc[i][1],
                       smech_to_bcc[i][2], 0))
       ELSE pc' = "render" /\ UNCHANGED <<error, failed_at>>
    /\ UNCHANGED <<validatorvars, ordervars>>
    /\ UNCHANGED <<args, row_idx, row, printed, smech_to_bcc, bcc_sectors, included,
                   sector_list, benchmark_code, bcc_sectors_code, prettier_rc, files>>

\* the timestamp, sector_list and the two template substitutions
Render ==
    /\ pc = "render"
    /\ \E ts \in Timestamps :
          LET sl == SectorList(bcc_sectors) IN
          /\ sector_list' = sl
          /\ benchmark_code' = BenchmarkCode(sl, smech_to_bcc, ts)
          /\ bcc_sectors_code' = BccSectorsCode(sl, ts)
    /\ pc' = NextStep(pc, args)
    /\ UNCHANGED <<validatorvars, ordervars>>
    /\ UNCHANGED <<args, row_idx, row, printed, smech_to_bcc, bcc_sectors, included,
                   prettier_rc, files, error, failed_at>>

Outcome(spawned, returncode) ==
    IF ~spawned THEN "not started" ELSE IF returncode = 0 THEN "zero" ELSE "non-zero"

PrettierBenchmark ==
    /\ pc = "prettier_benchmark"
    /\ \E spawned \in BOOLEAN, returncode \in {0, 2} :
          LET res == PrettierFormat(benchmark_code, spawned, returncode) IN
          /\ spawned \/ returncode = 0
          /\ prettier_rc' = [prettier_rc EXCEPT !["naces.ts"] = Outcome(spawned, returncode)]
          /\ benchmark_code' = res.code
          /\ IF IsError(res.error)
             THEN Fail(res.error)
             ELSE pc' = NextStep(pc, args) /\ UNCHANGED <<error, failed_at>>
    /\ UNCHANGED <<validatorvars, ordervars>>
    /\ UNCHANGED <<args, row_idx, row, printed, smech_to_bcc, bcc_sectors, included,
                   sector_list, bcc_sectors_code, files>>

PrettierBcc ==
    /\ pc = "prettier_bcc"
    /\ \E spawned \in BOOLEAN, returncode \in {0, 2} :
          LET res == PrettierFormat(bcc_sectors_code, spawned, returncode) IN
          /\ spawned \/ returncode = 0
          /\ prettier_rc' = [prettier_rc EXCEPT !["sectors.data.ts"] = Outcome(spawned, returncode)]
          /\ bcc_sectors_code' = res.code
          /\ IF IsError(res.error)
             THEN Fail(res.error)
             ELSE pc' = NextStep(pc, args) /\ UNCHANGED <<error, failed_at>>
    /\ UNCHANGED <<validatorvars, ordervars>>
    /\ UNCHANGED <<args, row_idx, row, printed, smech_to_bcc, bcc_sectors, included,
                   sector_list, benchmark_code, files>>

\* if not args.output_bcc or not args.output_benchmark: os.makedirs("dist", exist_ok=True)
MakeDirs ==
    /\ pc = "makedirs"
    /\ \/ pc' = NextStep(pc, args) /\ UNCHANGED <<error, failed_at>>
       \/ /\ ~args.output_bcc \/ ~args.output_benchmark
          /\ Fail(Raise("OSError", "cannot create dist", "", <<>>, <<>>, 0))
    /\ UNCHANGED <<validatorvars, ordervars>>
    /\ UNCHANGED <<args, row_idx, row, printed, smech_to_bcc, bcc_sectors, included,
                   sector_list, benchmark_code, bcc_sectors_code, prettier_rc, files>>

\* with open(path, "w") as f: f.write(code).  The open can fail, leaving the
\* file as it was; the write can fail after the open has truncated the file.
WriteFile(name) ==
    \/ /\ files' = [files EXCEPT ![name] = "written"]
       /\ pc' = NextStep(pc, args)
       /\ UNCHANGED <<error, failed_at>>
    \/ /\ Fail(Raise("OSError", "cannot open for writing", "", <<>>, <<>>, 0))
       /\ UNCHANGED files
    \/ /\ files' = [files EXCEPT ![name] = "truncated"]
       /\ Fail(Raise("OSError", "cannot write", "", <<>>, <<>>, 0))

WriteBenchmark ==
    /\ pc = "write_benchmark"
    /\ WriteFile("naces.ts")
    /\ UNCHANGED <<validatorvars, ordervars>>
    /\ UNCHANGED <<args, row_idx, row, printed, smech_to_bcc, bcc_sectors, included,
                   sector_list, benchmark_code, bcc_sectors_code, prettier_rc>>

WriteBcc ==
    /\ pc = "write_bcc"
    /\ WriteFile("sectors.data.ts")
    /\ UNCHANGED <<validatorvars, ordervars>>
    /\ UNCHANGED <<args, row_idx, row, printed, smech_to_bcc, bcc_sectors, included,
                   sector_list, benchmark_code, bcc_sectors_code, prettier_rc>>

Next ==
    \/ ParseArgs
    \/ OpenSmech \/ SmechNextRow(MainSmechRows) \/ SmechReadError \/ SmechReturn
    \/ OpenBcc \/ BccNextRow(MainBccRows) \/ BccReadError \/ BccReturn
    \/ Verify \/ Render
    \/ PrettierBenchmark \/ PrettierBcc
    \/ MakeDirs \/ WriteBenchmark \/ WriteBcc

Spec == Init /\ [][Next]_vars

(* --------------------- load_smech_to_bcc on its own -------------------- *)

\* main() about to open data/smech_sectors.csv.
SmechInit == pc = "open_smech" /\ Blank /\ IdleValidators /\ IdleOrder

SmechNext == OpenSmech \/ SmechNextRow(SmechRows) \/ SmechReadError \/ SmechReturn

SpecSmech == SmechInit /\ [][SmechNext]_vars

(* ---------------------- load_bcc_sectors on its own -------------------- *)

\* main() about to open data/bcc_sectors.csv, the first file having had no rows.
BccInit == pc = "open_bcc" /\ Blank /\ IdleValidators /\ IdleOrder

BccNext == OpenBcc \/ BccNextRow(BccRows) \/ BccReadError \/ BccReturn

SpecBcc == BccInit /\ [][BccNext]_vars

(* ------------------------ the validators on their own ------------------ *)

ValidatorChars == {"1", "2", "a", " ", "\n"}

\* Every string of at most MaxLen of these characters.
ValidatorInputs == UNION {[1..n -> ValidatorChars] : n \in 0..MaxLen}

ValidatorsInit ==
    /\ pc = "parse_args" /\ Blank /\ IdleOrder
    /\ v_value \in ValidatorInputs
    /\ v_result = NotCalled

ExpectJustDigits ==
    /\ v_result = NotCalled
    /\ v_result' = [fn |-> "expect_just_digits",
                    error |-> expect_just_digits(v_value, "field", 2)]
    /\ UNCHANGED <<v_value, mainvars, ordervars>>

ExpectNonDigits ==
    /\ v_result = NotCalled
    /\ v_result' = [fn |-> "expect_non_digits",
                    error |-> expect_non_digits(v_value, "field", 2)]
    /\ UNCHANGED <<v_value, mainvars, ordervars>>

ValidatorsNext == ExpectJustDigits \/ ExpectNonDigits

SpecValidators == ValidatorsInit /\ [][ValidatorsNext]_vars

(* ------------- load_smech_to_bcc on a file and a reordering of it ------- *)

\* load_smech_to_bcc on the data rows of a whole file: the dict returned, or
\* the exception that ended the load.
RECURSIVE LoadSmechFrom(_, _, _)
LoadSmechFrom(out, rows, idx) ==
    IF rows = <<>>
    THEN [ran |-> TRUE, out |-> out, error |-> NoError]
    ELSE LET res == SmechRow(out, Head(rows), idx) IN
         IF IsError(res.error)
         THEN [ran |-> TRUE, out |-> res.out, error |-> res.error]
         ELSE LoadSmechFrom(res.out, Tail(rows), idx + 1)

LoadSmechToBcc(rows) == LoadSmechFrom(<<>>, rows, 2)

OrderRows ==
    [ncols : {6}, smech_code : {S1, <<" ", "2">>, Sa}, bcc_code : {S1, <<"2", " ">>, <<>>}]

OrderInit ==
    /\ pc = "parse_args" /\ Blank /\ IdleValidators
    /\ o_rows \in UNION {[1..n -> OrderRows] : n \in 0..MaxOrderRows}
    /\ o_perm = <<>>
    /\ o_first = NotLoaded
    /\ o_second = NotLoaded

LoadAsWritten ==
    /\ ~o_first.ran
    /\ o_first' = LoadSmechToBcc(o_rows)
    /\ UNCHANGED <<o_rows, o_perm, o_second, mainvars, validatorvars>>

LoadReordered ==
    /\ o_first.ran /\ ~o_second.ran
    /\ \E perm \in Permutations(1..Len(o_rows)) :
          /\ o_perm' = [i \in 1..Len(o_rows) |-> perm[i]]
          /\ o_second' = LoadSmechToBcc([i \in 1..Len(o_rows) |-> o_rows[perm[i]]])
    /\ UNCHANGED <<o_rows, o_first, mainvars, validatorvars>>

OrderNext == LoadAsWritten \/ LoadReordered

SpecOrder == OrderInit /\ [][OrderNext]_vars

(* ============================== properties ============================= *)

OutputFiles == {"naces.ts", "sectors.data.ts"}

\* The statement main() is at, or was at when it failed.
Stage == IF pc = "failed" THEN failed_at ELSE pc

Loading == {"parse_args", "open_smech", "load_smech", "open_bcc", "load_bcc"}

AfterVerify ==
    {"render", "prettier_benchmark", "prettier_bcc", "makedirs", "write_benchmark",
     "write_bcc", "done"}

NothingWritten == \A f \in OutputFiles : files[f] = "untouched"

NothingRendered == sector_list = <<>> /\ benchmark_code = NoCode /\ bcc_sectors_code = NoCode

Dangling == \E i \in 1..Len(smech_to_bcc) :
                \A j \in 1..Len(bcc_sectors) : bcc_sectors[j][1] # smech_to_bcc[i][2]

\* C1: once both loaders have returned, a mapping that names a code missing
\* from the sector table gets no further than the verification, which ends the
\* run with the "not in the BCC sector list" ValueError, nothing rendered and no
\* file written; so whenever main() is rendering, formatting or writing (or a
\* file has been touched) every mapped code is a key of the sector table.
C1_CrossReferenceGate ==
    /\ Stage \in AfterVerify => ~Dangling
    /\ ~NothingWritten => ~Dangling
    /\ (Stage \notin Loading /\ Dangling) =>
          \/ pc = "verify"
          \/ /\ pc = "failed" /\ failed_at = "verify"
             /\ error.type = "ValueError" /\ error.what = "is not in the BCC sector list"
             /\ NothingRendered /\ NothingWritten
    /\ (pc = "failed" /\ failed_at = "verify") => Dangling

\* C1 witness: both tables loaded with entries, and the run ended by the
\* verification.
C1_Witness ==
    /\ pc = "failed" /\ failed_at = "verify"
    /\ Len(smech_to_bcc) = 2 /\ bcc_sectors # <<>>
    /\ \E j \in 1..Len(bcc_sectors) : bcc_sectors[j][1] = smech_to_bcc[1][2]

Written == {f \in OutputFiles : files[f] = "written"}

\* C2 as claimed: a run that ended in a failure has written neither output
\* file or both.
C2_NoPartialWrites == pc = "failed" => (Written = {} \/ Written = OutputFiles)

\* C2 as amended: a failure raised before the write step leaves both output
\* files untouched; a failure writing the first file leaves the second
\* untouched; a failure writing the second file leaves the first written.
C2_NoWritesBeforeWriteStep ==
    pc = "failed" =>
        /\ failed_at \notin {"write_benchmark", "write_bcc"} => NothingWritten
        /\ failed_at = "write_benchmark" =>
              files["naces.ts"] # "written" /\ files["sectors.data.ts"] = "untouched"
        /\ failed_at = "write_bcc" =>
              files["naces.ts"] = "written" /\ files["sectors.data.ts"] # "written"

\* C2 witness: the second write failed after the first file was written.
C2_Witness ==
    /\ pc = "failed" /\ failed_at = "write_bcc" /\ error.type = "OSError"
    /\ files["naces.ts"] = "written"

\* C3: with --prettier, a Prettier run that exits non-zero fails the run at
\* that call with no file touched, and a file is touched only after Prettier
\* has exited zero for both modules and both modules hold its output.
C3_FormatBeforeWrite ==
    /\ \A f \in OutputFiles :
          prettier_rc[f] = "non-zero" =>
             /\ pc = "failed" /\ error.type = "CalledProcessError"
             /\ failed_at = (IF f = "naces.ts" THEN "prettier_benchmark" ELSE "prettier_bcc")
             /\ NothingWritten
    /\ (args.prettier /\ ~NothingWritten) =>
          /\ \A f \in OutputFiles : prettier_rc[f] = "zero"
          /\ benchmark_code.prettier /\ bcc_sectors_code.prettier
    /\ (pc = "failed" /\ failed_at \in {"prettier_benchmark", "prettier_bcc"}) => NothingWritten

\* C3 witness: the first module was formatted and Prettier then exited non-zero
\* on the second.
C3_Witness ==
    /\ pc = "failed"
    /\ prettier_rc["naces.ts"] = "zero" /\ prettier_rc["sectors.data.ts"] = "non-zero"

\* C6: once rendered, sector_list is in ascending order of name and holds one
\* {name, nace} entry for each entry of the sector table and nothing else;
\* naces.ts carries sector_list, and sectors.data.ts carries sector_list
\* followed by the one entry {name: "Not listed", nace: ""}.
C6_SectorListSorted ==
    benchmark_code.template # "none" =>
        /\ \A i, j \in 1..Len(sector_list) :
              i < j => ~StrLess(sector_list[j].name, sector_list[i].name)
        /\ Len(sector_list) = Len(bcc_sectors)
        /\ {sector_list[i] : i \in 1..Len(sector_list)}
              = {[name |-> bcc_sectors[i][2], nace |-> bcc_sectors[i][1]] :
                    i \in 1..Len(bcc_sectors)}
        /\ benchmark_code.sector_array = sector_list
        /\ Len(bcc_sectors_code.sector_array) = Len(sector_list) + 1
        /\ SubSeq(bcc_sectors_code.sector_array, 1, Len(sector_list)) = sector_list
        /\ bcc_sectors_code.sector_array[Len(sector_list) + 1]
              = [name |-> <<"N", "o", "t", " ", "l", "i", "s", "t", "e", "d">>, nace |-> <<>>]

\* C6 witness: two sectors rendered, read from the file in descending order of
\* name.
C6_Witness ==
    /\ benchmark_code.template # "none"
    /\ Len(bcc_sectors) = 2
    /\ StrLess(bcc_sectors[2][2], bcc_sectors[1][2])

(* ----------------------- load_smech_to_bcc, row by row ----------------- *)

\* This step is an iteration of load_smech_to_bcc's loop, on row'.
SmechIteration ==
    /\ pc = "load_smech"
    /\ row'.ncols > 0
    /\ row_idx' = row_idx + 1 \/ (pc' = "failed" /\ error'.what # "cannot read")

AllDigits(s) == s # <<>> /\ \A i \in 1..Len(s) : s[i] \in {"0", "1", "2", "3", "4", "5", "6", "7", "8", "9"}

Recorded(d, k) == \E i \in 1..Len(d) : d[i][1] = k

ValueOf(d, k) == d[CHOOSE i \in 1..Len(d) : d[i][1] = k][2]

\* C4: a six-column row whose trimmed smech_code is already mapped and whose
\* trimmed bcc_code is a digit string is accepted with the dict unchanged when
\* the bcc_code is the recorded one, and ends the load with the "has multiple
\* mappings" ValueError when it is another; and no iteration changes or drops
\* an entry the dict already holds.
C4_NoSilentOverwrite ==
    [][SmechIteration =>
          /\ \A i \in 1..Len(smech_to_bcc) :
                i <= Len(smech_to_bcc') /\ smech_to_bcc'[i] = smech_to_bcc[i]
          /\ (/\ row'.ncols >= 6
              /\ Recorded(smech_to_bcc, Strip(row'.smech_code))
              /\ AllDigits(Strip(row'.bcc_code))) =>
                IF ValueOf(smech_to_bcc, Strip(row'.smech_code)) = Strip(row'.bcc_code)
                THEN /\ pc' = "load_smech" /\ error' = NoError
                     /\ smech_to_bcc' = smech_to_bcc
                ELSE /\ pc' = "failed" /\ error'.type = "ValueError"
                     /\ error'.what = "has multiple mappings"
                     /\ smech_to_bcc' = smech_to_bcc
    ]_vars

\* C4 witness: the load ended on a second, different bcc_code for a mapped
\* smech_code.
C4_Witness ==
    /\ pc = "failed" /\ failed_at = "load_smech"
    /\ error.what = "has multiple mappings"
    /\ Recorded(smech_to_bcc, error.key) /\ ValueOf(smech_to_bcc, error.key) # error.value

\* C7: a six-column row whose bcc_code is empty once trimmed changes nothing in
\* the dict and raises nothing, whatever its smech_code: the warning is printed
\* and the loop goes on to the next row.
C7_EmptyTargetSkipped ==
    [][(SmechIteration /\ row'.ncols >= 6 /\ Strip(row'.bcc_code) = <<>>) =>
          /\ smech_to_bcc' = smech_to_bcc
          /\ pc' = "load_smech" /\ error' = NoError
          /\ row_idx' = row_idx + 1
          /\ printed' = "WARNING"
    ]_vars

\* C7 witness: a row with a non-digit smech_code and a blank bcc_code was
\* skipped with a warning while the dict already held an entry.
C7_Witness ==
    /\ pc = "load_smech" /\ printed = "WARNING"
    /\ row.ncols >= 6 /\ row.smech_code = <<"a">> /\ row.bcc_code = <<" ">>
    /\ smech_to_bcc # <<>>

(* ------------------------ load_bcc_sectors, row by row ----------------- *)

BccIteration ==
    /\ pc = "load_bcc"
    /\ row'.ncols > 0
    /\ row_idx' = row_idx + 1 \/ (pc' = "failed" /\ error'.what # "cannot read")

Flagged(cell) == Lower(Strip(cell)) \in {<<"x">>, <<"y">>, <<"y", "e", "s">>}

\* C5: an eight-column row whose use_for_bcc cell, trimmed and lower-cased, is
\* none of "x", "y", "yes" is passed over: nothing is raised and the dict is
\* unchanged, whatever its other cells hold; so an iteration that adds an entry
\* is one on a flagged row.
C5_OnlyFlaggedRowsIncluded ==
    [][BccIteration =>
          /\ (row'.ncols >= 8 /\ ~Flagged(row'.use_for_bcc)) =>
                /\ bcc_sectors' = bcc_sectors
                /\ pc' = "load_bcc" /\ error' = NoError
                /\ row_idx' = row_idx + 1
          /\ bcc_sectors' # bcc_sectors =>
                /\ Flagged(row'.use_for_bcc)
                /\ bcc_sectors' = Append(bcc_sectors, <<Strip(row'.nace_code), Strip(row'.bcc_name)>>)
    ]_vars

\* C5 witness: an unflagged row with a non-digit nace_code was passed over while
\* the dict already held an entry.
C5_Witness ==
    /\ pc = "load_bcc"
    /\ row.ncols >= 8 /\ row.use_for_bcc = <<"n">> /\ row.nace_code = <<"a">>
    /\ bcc_sectors # <<>>

\* C9: a flagged eight-column row whose trimmed nace_code is already recorded
\* ends the load and leaves the dict as it was, with the "is expected to be
\* unique" ValueError whenever its bcc_name passes expect_non_digits, the same
\* name as the recorded one included; and a dict that is returned holds one
\* entry for each flagged row read.
C9_DuplicateCodeFails ==
    /\ [][(/\ BccIteration /\ row'.ncols >= 8 /\ Flagged(row'.use_for_bcc)
           /\ Recorded(bcc_sectors, Strip(row'.nace_code))) =>
             /\ pc' = "failed" /\ error'.type = "ValueError"
             /\ bcc_sectors' = bcc_sectors
             /\ ~AllDigits(Strip(row'.bcc_name)) => error'.what = "is expected to be unique"
       ]_vars
    /\ [](pc = "verify" => Len(bcc_sectors) = included)

\* C9 witness: the load ended on a second flagged row with a recorded nace_code
\* and the recorded name.
C9_Witness ==
    /\ pc = "failed" /\ failed_at = "load_bcc"
    /\ error.what = "is expected to be unique"
    /\ Recorded(bcc_sectors, error.key) /\ ValueOf(bcc_sectors, error.key) = error.value

(* ------------------------------ row ordering --------------------------- *)

\* C8: a file and any reordering of its rows either both fail to load or load
\* to equal dicts; and a dict that is returned has each smech_code once, and
\* maps the trimmed smech_code of every row with a non-blank bcc_code to that
\* row's trimmed bcc_code.
C8_OrderIndependent ==
    o_second.ran =>
        /\ IsError(o_first.error) <=> IsError(o_second.error)
        /\ ~IsError(o_first.error) =>
              /\ {o_first.out[i] : i \in 1..Len(o_first.out)}
                    = {o_second.out[i] : i \in 1..Len(o_second.out)}
              /\ \A i, j \in 1..Len(o_second.out) :
                    o_second.out[i][1] = o_second.out[j][1] => i = j
              /\ \A n \in 1..Len(o_rows) :
                    Strip(o_rows[n].bcc_code) # <<>> =>
                        \E i \in 1..Len(o_second.out) :
                            o_second.out[i] = <<Strip(o_rows[n].smech_code), Strip(o_rows[n].bcc_code)>>

\* C8 witness: a file of two mappings loaded in both orders.
C8_Witness ==
    /\ o_second.ran /\ ~IsError(o_second.error)
    /\ Len(o_first.out) = 2
    /\ o_first.out # o_second.out

(* ------------------------------ validators ----------------------------- *)

\* C10: expect_just_digits raises exactly when the value is empty or holds a
\* character that is not one of 0-9, and returns otherwise.
C10_RejectsAllButDigits ==
    v_result.fn = "expect_just_digits" =>
        (IsError(v_result.error) <=>
            (v_value = <<>> \/ \E i \in 1..Len(v_value) :
                v_value[i] \notin {"0", "1", "2", "3", "4", "5", "6", "7", "8", "9"}))

=============================================================================
